---- MODULE Spec2Model ----
(***************************************************************************)
(* Model of the backtesting microservice (backtest-service/main.py) and of *)
(* the companion polling script (src/__tests__/stress_test_drawdown.py).   *)
(*                                                                         *)
(* The vectorised backtesting engine is a third-party library: what it     *)
(* returns (equity values, trade records, statistics) or whether it raises *)
(* is an input of the model, drawn from small sets.  Everything the        *)
(* repository's own code does with those values is modelled as written.    *)
(***************************************************************************)
EXTENDS Integers, Sequences, FiniteSets, TLC

(***************************************************************************)
(* Bounds of the model.                                                    *)
(***************************************************************************)
MaxCandles == 2
MaxTrades == 2

(***************************************************************************)
(* IEEE-754 binary64 arithmetic on bit sequences.  A positive double is    *)
(* [m |-> <<b1..b53>>, e |-> k], most significant bit first, b1 = 1, and   *)
(* stands for (b1..b53 read in base 2) * 2^k.                              *)
(***************************************************************************)
\* 52 stored fraction bits and the implicit leading bit
MantissaBits == 52 + 1

\* n < 2^w as w bits
Bits(n, w) == [ix \in 1..w |-> (n \div (2 ^ (w - ix))) % 2]

AnyOne(bits) == \E ix \in 1..Len(bits) : bits[ix] = 1

\* bits without its leading zeros
Strip(bits) ==
    IF ~AnyOne(bits) THEN <<>>
    ELSE LET j == CHOOSE ix \in 1..Len(bits) :
                      bits[ix] = 1 /\ \A k \in 1..(ix - 1) : bits[k] = 0
         IN  SubSeq(bits, j, Len(bits))

\* 0 <= n < 2^30 in base 2, no leading zero
Bin(n) == Strip(Bits(n, 30))

RECURSIVE BitsToInt(_)
BitsToInt(bits) ==
    IF bits = <<>> THEN 0
    ELSE 2 * BitsToInt(SubSeq(bits, 1, Len(bits) - 1)) + bits[Len(bits)]

\* bits + 1: the last 0 becomes 1 and the 1s after it 0
Incr(bits) ==
    IF \A ix \in 1..Len(bits) : bits[ix] = 1
    THEN <<1>> \o [ix \in 1..Len(bits) |-> 0]
    ELSE LET j == CHOOSE ix \in 1..Len(bits) :
                      bits[ix] = 0 /\ \A k \in (ix + 1)..Len(bits) : bits[k] = 1
         IN  [ix \in 1..Len(bits) |->
                 IF ix < j THEN bits[ix] ELSE IF ix = j THEN 1 ELSE 0]

\* bits cut to its first `keep` bits, round-half-to-even on what is cut off
\* (sticky: a nonzero remainder below the last bit of bits).  The result has
\* keep bits, or keep + 1 when the increment carries out.
RoundAt(bits, keep, sticky) ==
    IF Len(bits) <= keep THEN bits
    ELSE LET kept  == SubSeq(bits, 1, keep)
             guard == bits[keep + 1]
             rest  == sticky \/ AnyOne(SubSeq(bits, keep + 2, Len(bits)))
             odd   == keep > 0 /\ kept[keep] = 1
         IN  IF guard = 1 /\ (rest \/ odd) THEN Incr(kept) ELSE kept

\* the double nearest to (bits read in base 2) * 2^e, given Len(bits) >= 53
ToDouble(bits, e, sticky) ==
    LET r == RoundAt(bits, MantissaBits, sticky)
        e1 == e + (Len(bits) - MantissaBits)
    IN  IF Len(r) > MantissaBits
        THEN [m |-> SubSeq(r, 1, MantissaBits), e |-> e1 + 1]
        ELSE [m |-> r, e |-> e1]

RECURSIVE GCD(_, _)
GCD(a, b) == IF b = 0 THEN a ELSE GCD(b, a % b)

\* long division, eight bits of the quotient's fraction per step
RECURSIVE FracBits(_, _, _)
FracBits(r, den, steps) ==
    IF steps = 0 THEN <<>>
    ELSE Bits((r * 256) \div den, 8) \o FracBits((r * 256) % den, den, steps - 1)

RECURSIVE FracRem(_, _, _)
FracRem(r, den, steps) ==
    IF steps = 0 THEN r ELSE FracRem((r * 256) % den, den, steps - 1)

\* num / den in binary64, for integers num >= 0 and den > 0 whose quotient
\* is 0 (no mantissa) or at least 2^-19: 72 bits of the fraction are enough
\* to round it
Divide(num, den) ==
    IF num = 0 THEN [m |-> <<>>, e |-> 0] ELSE
    LET g == GCD(num, den)
        n == num \div g
        d == den \div g
        bits == Strip(Bin(n \div d) \o FracBits(n % d, d, 9))
    IN  ToDouble(bits, -72, FracRem(n % d, d, 9) # 0)

\* the limb-th group of eight bits, read in base 2
Limb(bits, limb) ==
    BitsToInt(SubSeq(bits, 8 * limb - 7, 8 * limb))

\* (the first `limb` groups of eight bits) * k + carry
RECURSIVE MulLimbs(_, _, _, _)
MulLimbs(bits, k, limb, carry) ==
    IF limb = 0 THEN Bits(carry, 24)
    ELSE MulLimbs(bits, k, limb - 1, (Limb(bits, limb) * k + carry) \div 256)
             \o Bits((Limb(bits, limb) * k + carry) % 256, 8)

\* bits * k for an integer 0 < k < 2^20
MulBits(bits, k) ==
    LET limbs == (Len(bits) + 7) \div 8
        padded == [ix \in 1..(8 * limbs - Len(bits)) |-> 0] \o bits
    IN  Strip(MulLimbs(padded, k, limbs, 0))

\* x * k in binary64
Multiply(x, k) ==
    IF x.m = <<>> THEN x ELSE ToDouble(MulBits(x.m, k), x.e, FALSE)

\* the integer nearest to x * k, ties to even (x * k >= 1)
NearestInt(x, k) ==
    LET p == MulBits(x.m, k)
    IN  BitsToInt(RoundAt(p, Len(p) + x.e, FALSE))

\* int(x): the integer part of a positive double
Truncate(x) ==
    IF x.e >= 0 THEN BitsToInt(x.m) * (2 ^ x.e)
    ELSE IF Len(x.m) + x.e <= 0 THEN 0
    ELSE BitsToInt(SubSeq(x.m, 1, Len(x.m) + x.e))

(***************************************************************************)
(* Timestamps.  pd.to_datetime(unit='ms') holds an instant as a count of   *)
(* nanoseconds; Timestamp.timestamp() is round(value / 1e9, 6), a double   *)
(* of seconds; the code then takes int(seconds * 1000).                    *)
(***************************************************************************)
to_datetime(ms) == ms * 1000000

\* round(x, 6): the double nearest to the 6-decimal number nearest to x
Round6(x) == Divide(NearestInt(x, 1000000), 1000000)

timestamp(value) == Round6(Divide(value, 1000000000))

\* int(df.index[i].timestamp() * 1000), for an instant at or after the epoch
EpochMillis(value) == Truncate(Multiply(timestamp(value), 1000))

(***************************************************************************)
(* The wire schema (the pydantic models) and the sets the inputs are drawn *)
(* from.                                                                   *)
(***************************************************************************)
TimestampSet == {1000, 1001, 1002}
CloseSet == {100}
StrategyTypes == {"ma_crossover", "rsi", "macd"}
ElapsedSet == {0, 3}
PnlSet == {-5, 0, 5}
EquityValues == {9990, 10000}

\* of a candle's prices only close is ever read (df['close'])
Candle == [timestamp : TimestampSet, close : CloseSet]

\* the defaults of StrategyParams; fractions are <<numerator, denominator>>
StrategyParams ==
    [fast_window : {20}, slow_window : {50}, rsi_window : {14},
     rsi_oversold : {30}, rsi_overbought : {70},
     stop_loss_pct : {<<2, 100>>}, take_profit_pct : {<<4, 100>>},
     strategy_type : StrategyTypes,
     initial_capital : {10000}, commission_pct : {<<1, 1000>>}]

BacktestRequest ==
    [candles : UNION {[1..n -> Candle] : n \in 0..MaxCandles},
     strategy_params : StrategyParams]

\* an optional value: <<>> is Python's None, <<v>> a value
None == <<>>
Some(v) == <<v>>

(***************************************************************************)
(* What the backtesting library hands back for a frame of n rows: it       *)
(* raises, or it returns a portfolio whose equity series has one value per *)
(* row and whose trade records point into the frame (0-based positions,    *)
(* exit_idx -1 for a trade still open).                                    *)
(***************************************************************************)
Stats ==
    [total_return |-> 0, total_return_pct |-> 0, sharpe_ratio |-> 1,
     max_drawdown |-> 0, max_drawdown_pct |-> 0]

TradeRecord(k, n, pnl, exit_idx) ==
    [id |-> k - 1, entry_idx |-> 0, exit_idx |-> exit_idx, direction |-> 0,
     entry_price |-> 100, exit_price |-> IF exit_idx = -1 THEN 0 ELSE 100 + pnl,
     size |-> 1, pnl |-> pnl, return |-> <<pnl, 100>>]

\* only the last trade can still be open
TradeRecords(n) ==
    UNION {{[k \in 1..t |->
                TradeRecord(k, n, pnl[k], IF k = t THEN last ELSE n - 1)] :
               pnl \in [1..t -> PnlSet], last \in {-1, n - 1}} :
           t \in 0..MaxTrades}

\* an equity series of n values, rising from its first value
EquitySeries(n) == {[k \in 1..n |-> v + k - 1] : v \in EquityValues}

LibRaises ==
    [raises |-> TRUE, message |-> "vectorbt error", equity |-> <<>>,
     records |-> <<>>, stats |-> Stats]

LibOutcomes(n) ==
    {LibRaises} \cup
    [raises : {FALSE}, message : {""}, equity : EquitySeries(n),
     records : TradeRecords(n), stats : {Stats}]

(***************************************************************************)
(* run_backtest, lines 80-86: the frame, indexed by date and sorted.       *)
(***************************************************************************)
DataFrame(candles) ==
    [ix \in 1..Len(candles) |->
        [date |-> to_datetime(candles[ix].timestamp),
         timestamp |-> candles[ix].timestamp, close |-> candles[ix].close]]

\* row put after the rows of `sorted` whose date is not later
Insert(row, sorted) ==
    LET before == SelectSeq(sorted, LAMBDA r : r.date <= row.date)
        after  == SelectSeq(sorted, LAMBDA r : r.date > row.date)
    IN  before \o <<row>> \o after

RECURSIVE sort_index(_)
sort_index(df) ==
    IF df = <<>> THEN <<>>
    ELSE Insert(df[Len(df)], sort_index(SubSeq(df, 1, Len(df) - 1)))

\* int(df.index[i].timestamp() * 1000), worked out once for every date a
\* frame can hold
EpochMillisTable == {<<to_datetime(ms), EpochMillis(to_datetime(ms))>> : ms \in TimestampSet}
index_ms(value) == (CHOOSE p \in EpochMillisTable : p[1] = value)[2]

(***************************************************************************)
(* The part the two strategy functions share word for word: the equity     *)
(* curve, the trade list and the metrics (lines 129-189 and 214-274).      *)
(***************************************************************************)
equity_curve(df, equity) ==
    [ix \in 1..Len(equity) |->
        [timestamp |-> index_ms(df[ix].date), value |-> equity[ix]]]

trade_list(df, records) ==
    [k \in 1..Len(records) |->
        LET trade == records[k]
        IN  [id |-> ToString(trade.id),
             symbol |-> "Unknown",
             side |-> IF trade.direction > 0 THEN "buy" ELSE "sell",
             entryTime |-> index_ms(df[trade.entry_idx + 1].date),
             exitTime |-> IF trade.exit_idx # -1
                          THEN Some(index_ms(df[trade.exit_idx + 1].date))
                          ELSE None,
             entryPrice |-> trade.entry_price,
             exitPrice |-> IF trade.exit_price # 0
                           THEN Some(trade.exit_price) ELSE None,
             quantity |-> trade.size,
             pnl |-> trade.pnl,
             pnlPercent |-> <<trade.return[1] * 100, trade.return[2]>>,
             status |-> IF trade.exit_idx # -1 THEN "closed" ELSE "open"]]

\* trades.win_pnl and trades.lose_pnl: the pnl of the trades won and lost
win_pnl(records) ==
    SelectSeq([k \in 1..Len(records) |-> records[k].pnl], LAMBDA x : x > 0)
lose_pnl(records) ==
    SelectSeq([k \in 1..Len(records) |-> records[k].pnl], LAMBDA x : x < 0)

\* trades.win_count and trades.lose_count
win_count(records) == Len(win_pnl(records))
lose_count(records) == Len(lose_pnl(records))

RECURSIVE Sum(_)
Sum(xs) == IF xs = <<>> THEN 0 ELSE xs[1] + Sum(Tail(xs))
Max(xs) == CHOOSE x \in {xs[ix] : ix \in 1..Len(xs)} : \A ix \in 1..Len(xs) : xs[ix] <= x
Min(xs) == CHOOSE x \in {xs[ix] : ix \in 1..Len(xs)} : \A ix \in 1..Len(xs) : xs[ix] >= x
Abs(x) == IF x < 0 THEN -x ELSE x

\* (winning_trades / total_trades if total_trades > 0 else 0) * 100
WinRate(winning_trades, total_trades) ==
    Multiply(IF total_trades > 0 THEN Divide(winning_trades, total_trades)
             ELSE Divide(0, 1), 100)

\* the same, worked out once for every pair of counts the trades can give
WinRateTable ==
    {<<w, t, WinRate(w, t)>> : w \in 0..(MaxTrades + 1), t \in 0..(MaxTrades + 1)}
win_rate(winning_trades, total_trades) ==
    (CHOOSE p \in WinRateTable :
        p[1] = winning_trades /\ p[2] = total_trades)[3]

\* a mean as the fraction <<sum, count>>; the literal 0 as <<0, 1>>
avg_win(records, winning_trades) ==
    IF winning_trades > 0
    THEN <<Sum(win_pnl(records)), Len(win_pnl(records))>> ELSE <<0, 1>>
avg_loss(records, losing_trades) ==
    IF losing_trades > 0
    THEN <<Sum(lose_pnl(records)), Len(lose_pnl(records))>> ELSE <<0, 1>>
largest_win(records, winning_trades) ==
    IF winning_trades > 0 THEN Max(win_pnl(records)) ELSE 0
largest_loss(records, losing_trades) ==
    IF losing_trades > 0 THEN Min(lose_pnl(records)) ELSE 0

\* <<numerator, denominator>>, or <<>> for float('inf')
profit_factor(records) ==
    IF Sum(lose_pnl(records)) # 0
    THEN <<Abs(Sum(win_pnl(records))), Abs(Sum(lose_pnl(records)))>>
    ELSE <<>>

\* the trades lost left out of the total
total_trades_won(winning_trades, losing_trades) == winning_trades

total_trades(winning_trades, losing_trades) == winning_trades + losing_trades

result_dict(df, portfolio) ==
    LET records == portfolio.records
        winning_trades == win_count(records)
        losing_trades == lose_count(records)
        total == total_trades(winning_trades, losing_trades)
    IN  [total_return |-> portfolio.stats.total_return,
         total_return_pct |-> portfolio.stats.total_return_pct,
         sharpe_ratio |-> portfolio.stats.sharpe_ratio,
         max_drawdown |-> portfolio.stats.max_drawdown,
         max_drawdown_pct |-> portfolio.stats.max_drawdown_pct,
         win_rate |-> win_rate(winning_trades, total),
         profit_factor |-> profit_factor(records),
         total_trades |-> total,
         winning_trades |-> winning_trades,
         losing_trades |-> losing_trades,
         avg_win |-> avg_win(records, winning_trades),
         avg_loss |-> avg_loss(records, losing_trades),
         largest_win |-> largest_win(records, winning_trades),
         largest_loss |-> largest_loss(records, losing_trades),
         equity_curve |-> equity_curve(df, portfolio.equity),
         trades |-> trade_list(df, records),
         execution_time |-> 0]

close_of(df) == [ix \in 1..Len(df) |-> df[ix].close]

from_signals(df, params) ==
    [fn |-> "Portfolio.from_signals",
     args |-> <<close_of(df), params.initial_capital, params.commission_pct,
                params.stop_loss_pct, params.take_profit_pct>>]

\* what a strategy function hands to its caller: the library calls it made,
\* and the dict it built or the exception that came out of the library
StrategyOutcome(by, calls, df, vbt) ==
    [by |-> by, calls |-> calls, raised |-> vbt.raises, message |-> vbt.message,
     result |-> IF vbt.raises THEN <<>> ELSE result_dict(df, vbt)]

run_ma_crossover_strategy(df, params, vbt) ==
    StrategyOutcome("run_ma_crossover_strategy",
        <<[fn |-> "MA.run", args |-> <<close_of(df), params.fast_window>>],
          [fn |-> "MA.run", args |-> <<close_of(df), params.slow_window>>],
          [fn |-> "ma_above", args |-> <<>>],
          [fn |-> "ma_below", args |-> <<>>],
          from_signals(df, params)>>, df, vbt)

run_rsi_strategy(df, params, vbt) ==
    StrategyOutcome("run_rsi_strategy",
        <<[fn |-> "RSI.run", args |-> <<close_of(df), params.rsi_window>>],
          [fn |-> "rsi_below", args |-> <<params.rsi_oversold>>],
          [fn |-> "rsi_above", args |-> <<params.rsi_overbought>>],
          from_signals(df, params)>>, df, vbt)

(***************************************************************************)
(* run_backtest, lines 75-103.                                             *)
(***************************************************************************)
NoStrategy ==
    [by |-> "none", calls |-> <<>>, raised |-> FALSE, message |-> "",
     result |-> <<>>]

HTTPException(status_code, detail) ==
    [type |-> "HTTPException", status_code |-> status_code, detail |-> detail]

\* str(e).  An HTTPException prints as "<status_code>: <detail>" or, in
\* framework versions without its __str__, as the empty string.
HTTPExceptionStr == {"status: detail", "empty"}
Str(exc, style) ==
    IF exc.type = "HTTPException"
    THEN IF style = "status: detail"
         THEN ToString(exc.status_code) \o ": " \o exc.detail
         ELSE ""
    ELSE exc.detail

Return(value, strategy) ==
    [kind |-> "return", value |-> value, exc |-> HTTPException(0, ""),
     strategy |-> strategy]
Raise(exc, strategy) ==
    [kind |-> "raise", value |-> <<>>, exc |-> exc, strategy |-> strategy]

\* lines 89-94 with the strategies taken for one another
select_strategy_swapped(df, params, vbt) ==
    IF params.strategy_type = "ma_crossover"
    THEN run_rsi_strategy(df, params, vbt)
    ELSE IF params.strategy_type = "rsi"
    THEN run_ma_crossover_strategy(df, params, vbt)
    ELSE NoStrategy

\* lines 89-94: the strategy function the strategy type selects, called;
\* NoStrategy when the type selects none
select_strategy(df, params, vbt) ==
    IF params.strategy_type = "ma_crossover"
    THEN run_ma_crossover_strategy(df, params, vbt)
    ELSE IF params.strategy_type = "rsi"
    THEN run_rsi_strategy(df, params, vbt)
    ELSE NoStrategy

\* the body of the try statement, lines 80-100
try_block(req, vbt, elapsed) ==
    IF req.candles = <<>>
    THEN \* df['timestamp'] on a frame without columns
         Raise([type |-> "KeyError", status_code |-> 0, detail |-> "'timestamp'"],
               NoStrategy)
    ELSE LET df == sort_index(DataFrame(req.candles))
             params == req.strategy_params
             result == select_strategy(df, params, vbt)
         IN  IF result.by = "none"
             THEN Raise(HTTPException(400,
                            "Strategy type '" \o params.strategy_type
                                \o "' not supported"), NoStrategy)
             ELSE IF result.raised
             THEN Raise([type |-> "Exception", status_code |-> 0,
                         detail |-> result.message], result)
             ELSE Return([result.result EXCEPT !.execution_time = elapsed],
                         result)

\* the handler without the prefix of its detail
except_clause_bare(exc, style) ==
    [status |-> 500, detail |-> Str(exc, style)]

\* except Exception as e, lines 102-103: it catches whatever the body
\* raised, the HTTPException of line 94 included
except_clause(exc, style) ==
    [status |-> 500, detail |-> "Backtest failed: " \o Str(exc, style)]

\* the response to a request whose try statement ended with `outcome`
run_backtest(outcome, style) ==
    IF outcome.kind = "return"
    THEN [status |-> 200, body |-> outcome.value]
    ELSE except_clause(outcome.exc, style)

(***************************************************************************)
(* The polling script, stress_test_drawdown.py.                            *)
(***************************************************************************)
Iterations == 10
JsonBodies == {"low", "breach"}
\* a response is a body that parses as JSON or one that does not
Responses == [json : {TRUE}, body : JsonBodies] \cup [json : {FALSE}, body : {"<html>"}]

(***************************************************************************)
(* State.                                                                  *)
(***************************************************************************)
VARIABLES
    pc,         \* the service: "idle", "handling" or "responded"
    request,    \* the request being handled
    lib,        \* what the library answered while it was handled
    built,      \* what the strategy function called for it handed back
    elapsedTime,\* time.time() - start_time of line 97
    response,   \* the response sent
    spc,        \* the script: "get", "wait", "print", "sleep" or "exit"
    i,          \* the script's loop variable
    sent,       \* GET requests the script has issued
    received,   \* responses the script has received
    resp,       \* the response the script holds
    output,     \* the lines the script has printed
    pauses,     \* the pauses the script has finished
    exit        \* how the script ended: "running", "normal" or "traceback"

serviceVars == <<pc, request, lib, built, elapsedTime, response>>
scriptVars == <<spc, i, sent, received, resp, output, pauses, exit>>
vars == <<pc, request, lib, built, elapsedTime, response,
          spc, i, sent, received, resp, output, pauses, exit>>

NoRequest == [candles |-> <<>>, strategy_params |-> <<>>]
NotCalled ==
    [raises |-> FALSE, message |-> "not called", equity |-> <<>>,
     records |-> <<>>, stats |-> Stats]
NoResponse == [status |-> 0]
NoResp == [json |-> FALSE, body |-> ""]

Init ==
    /\ pc = "idle"
    /\ request = NoRequest
    /\ lib = NotCalled
    /\ built = NoStrategy
    /\ elapsedTime = 0
    /\ response = NoResponse
    /\ spc = "get"
    /\ i = 0
    /\ sent = 0
    /\ received = 0
    /\ resp = NoResp
    /\ output = <<>>
    /\ pauses = 0
    /\ exit = "running"

(***************************************************************************)
(* The service's steps.                                                    *)
(***************************************************************************)
\* a POST /run-backtest arrives, its body valid against BacktestRequest
Receive ==
    /\ pc = "idle"
    /\ \E r \in BacktestRequest : request' = r
    /\ pc' = "handling"
    /\ UNCHANGED <<lib, built, elapsedTime, response, scriptVars>>

\* the handler runs to its return or to the exception it ends with
RunBacktest ==
    /\ pc = "handling"
    /\ \E l \in LibOutcomes(Len(request.candles)), elapsed \in ElapsedSet,
          style \in HTTPExceptionStr :
          LET outcome == try_block(request, l, elapsed)
          IN  /\ response' = run_backtest(outcome, style)
              /\ built' = outcome.strategy
              /\ lib' = IF outcome.strategy.by = "none" THEN NotCalled ELSE l
              /\ elapsedTime' = elapsed
    /\ pc' = "responded"
    /\ UNCHANGED <<request, scriptVars>>

\* the service waits for the next request
Done ==
    /\ pc = "responded"
    /\ pc' = "idle"
    /\ request' = NoRequest
    /\ lib' = NotCalled
    /\ built' = NoStrategy
    /\ elapsedTime' = 0
    /\ response' = NoResponse
    /\ UNCHANGED scriptVars

Next == Receive \/ RunBacktest \/ Done

Spec == Init /\ [][Next]_vars

(***************************************************************************)
(* The script's steps.  requests.get blocks until the response is there;   *)
(* it raises when the connection fails.                                    *)
(***************************************************************************)
\* line 15: the request goes out
Get ==
    /\ spc = "get"
    /\ sent' = sent + 1
    /\ spc' = "wait"
    /\ UNCHANGED <<i, received, resp, output, pauses, exit, serviceVars>>

\* line 15: the response arrives
Respond ==
    /\ spc = "wait"
    /\ \E r \in Responses : resp' = r
    /\ received' = received + 1
    /\ spc' = "print"
    /\ UNCHANGED <<i, sent, output, pauses, exit, serviceVars>>

\* line 15: the connection fails, requests.get raises, the script dies
ConnectionError ==
    /\ spc = "wait"
    /\ spc' = "exit"
    /\ exit' = "traceback"
    /\ UNCHANGED <<i, sent, received, resp, output, pauses, serviceVars>>

\* line 16: resp.json() parses the body or raises
PrintAssessment ==
    /\ spc = "print"
    /\ IF resp.json
       THEN /\ output' = Append(output, <<i + 1, resp.body>>)
            /\ spc' = "sleep"
            /\ exit' = exit
       ELSE /\ output' = output
            /\ spc' = "exit"
            /\ exit' = "traceback"
    /\ UNCHANGED <<i, sent, received, resp, pauses, serviceVars>>

\* the loop going round once more than range(10) allows
SleepOnceMore ==
    /\ spc = "sleep"
    /\ pauses' = pauses + 1
    /\ i' = i + 1
    /\ IF i + 1 <= Iterations
       THEN spc' = "get" /\ exit' = exit
       ELSE spc' = "exit" /\ exit' = "normal"
    /\ UNCHANGED <<sent, received, resp, output, serviceVars>>

\* line 17, and line 12's next value of i or the end of the loop
Sleep ==
    /\ spc = "sleep"
    /\ pauses' = pauses + 1
    /\ i' = i + 1
    /\ IF i + 1 < Iterations
       THEN spc' = "get" /\ exit' = exit
       ELSE spc' = "exit" /\ exit' = "normal"
    /\ UNCHANGED <<sent, received, resp, output, serviceVars>>

ScriptNext == Get \/ Respond \/ ConnectionError \/ PrintAssessment \/ Sleep

ScriptSpec == Init /\ [][ScriptNext]_vars

\* every step of the script is taken in the end: the interpreter runs on,
\* and every request is answered or fails
ScriptFairSpec == ScriptSpec /\ WF_vars(ScriptNext)

(***************************************************************************)
(* Properties.                                                             *)
(***************************************************************************)
Supported == {"ma_crossover", "rsi"}
Prefix == "Backtest failed: "

\* the number of points of an equity curve stamped t
Stamped(curve, t) == Cardinality({k \in 1..Len(curve) : curve[k].timestamp = t})
\* the number of candles stamped t
Candles(candles, t) == Cardinality({k \in 1..Len(candles) : candles[k].timestamp = t})

\* C1: a request for "ma_crossover" is answered with the dict that
\* run_ma_crossover_strategy built, a request for "rsi" with the one that
\* run_rsi_strategy built, each from the request's candles (as a sorted
\* frame) and parameters; run_backtest returns that dict with
\* execution_time set and every other field as it was built.  A request for
\* either strategy during which nothing raises is answered with such a dict.
C1_ReturnsTheStrategyResult ==
    pc = "responded" =>
        LET params == request.strategy_params
            df == sort_index(DataFrame(request.candles))
        IN  /\ ( /\ params.strategy_type \in Supported
                 /\ request.candles # <<>>
                 /\ ~lib.raises ) => response.status = 200
            /\ response.status = 200 =>
                 /\ params.strategy_type \in Supported
                 /\ built = IF params.strategy_type = "ma_crossover"
                            THEN run_ma_crossover_strategy(df, params, lib)
                            ELSE run_rsi_strategy(df, params, lib)
                 /\ DOMAIN response.body = DOMAIN built.result
                 /\ \A f \in DOMAIN built.result \ {"execution_time"} :
                        response.body[f] = built.result[f]
                 /\ response.body.execution_time = elapsedTime

\* C1's case: a backtest that succeeded, with trades, whose execution_time
\* is not the one the strategy function wrote
C1_Witness ==
    /\ pc = "responded"
    /\ response.status = 200
    /\ request.strategy_params.strategy_type = "rsi"
    /\ Len(response.body.trades) > 0
    /\ response.body.execution_time # built.result.execution_time

\* C2: a request with candles whose strategy type is neither "ma_crossover"
\* nor "rsi" is answered with status 400 and the detail
\* "Strategy type '<strategy_type>' not supported".
C2_UnsupportedIs400 ==
    ( /\ pc = "responded"
      /\ request.candles # <<>>
      /\ request.strategy_params.strategy_type \notin Supported ) =>
        /\ response.status = 400
        /\ response.detail = "Strategy type '"
               \o request.strategy_params.strategy_type \o "' not supported"

\* C3: when building the frame raises (no candles) or the strategy that was
\* selected raises, the answer has status 500, a detail that starts with
\* "Backtest failed: ", and no backtest result.
C3_ExceptionIs500 ==
    ( /\ pc = "responded"
      /\ (request.candles = <<>> \/ built.raised) ) =>
        /\ response.status = 500
        /\ DOMAIN response = {"status", "detail"}
        /\ Len(response.detail) >= Len(Prefix)
        /\ SubSeq(response.detail, 1, Len(Prefix)) = Prefix

\* C3's case: the backtesting library raised inside run_rsi_strategy
C3_Witness ==
    /\ pc = "responded"
    /\ built.by = "run_rsi_strategy"
    /\ built.raised
    /\ response.status = 500

\* C4: the equity curve of a successful backtest has one point per candle
\* of the request, its timestamps do not decrease, and they are the
\* candles' timestamps, each as often as it came.
C4_EquityCurveTimestamps ==
    (pc = "responded" /\ response.status = 200) =>
        LET curve == response.body.equity_curve
        IN  /\ Len(curve) = Len(request.candles)
            /\ \A k \in 1..(Len(curve) - 1) :
                   curve[k].timestamp <= curve[k + 1].timestamp
            /\ \A t \in TimestampSet \cup {curve[k].timestamp : k \in 1..Len(curve)} :
                   Stamped(curve, t) = Candles(request.candles, t)

\* x * 1000000 rounded to an integer and the fraction n / d likewise: the
\* two agree to the sixth decimal
SixDecimals(x) == NearestInt(x, 1000000)
SixDecimalsOf(n, d) == (2 * 1000000 * n + d) \div (2 * d)

AllAnswersJson == received = sent /\ Len(output) = received

C5_Sequential ==
    /\ sent <= Iterations
    /\ sent - received \in {0, 1}
    /\ spc = "wait" =>
           /\ received = sent - 1
           /\ Len(output) = sent - 1
           /\ pauses = sent - 1
    /\ (spc = "exit" /\ AllAnswersJson) =>
           (sent = Iterations /\ exit = "normal" /\ pauses = Iterations)

====
